---- MODULE Spec2Model ----
(***************************************************************************)
(* The playlist -> RDF Extractor (rdf_schema.py) and the SPARQL Query      *)
(* Runner (sparql.py).                                                     *)
(*                                                                         *)
(* Strings whose content matters (durations, names, thresholds) are        *)
(* sequences of code points, so that formatting, splitting, parsing and    *)
(* the string comparison the query engine applies to plain literals are    *)
(* computed, not assumed.  URIs are opaque and are TLA+ strings.           *)
(***************************************************************************)
EXTENDS Integers, Sequences, FiniteSets, TLC

VARIABLES
    \* ---- Extractor process (rdf_schema.py)
    epc,        \* "start" | "loop" | "done" | "aborted"
    fetched,    \* sp.playlist(...) returned
    playlist,   \* playlist['tracks']['items']
    idx,        \* position of the for loop in the items, 1-based
    g,          \* the in-memory Graph of the Extractor
    file,       \* wedding_playlist.rdf: [exists, content]
    writes,     \* number of times the file was written
    \* ---- Query Runner process (sparql.py)
    qpc,        \* "idle" | "loaded" | "exited" | "crashed"
    qg,         \* the module-level Graph g of sparql.py
    args,       \* argv as argparse sees it: [query, min_duration]
    out,        \* lines printed by this invocation
    executed,   \* query handlers called by this invocation, in order
    queries,    \* number of g.query(...) calls of this invocation
    status,     \* process exit status
    snapshot,   \* the file as it was when this invocation loaded it
    prev,       \* the previous finished invocation
    \* ---- one duration value followed through format and parse
    dpc,        \* "input" | "formatted" | "parsed"
    duration_ms,
    duration_str,
    total_seconds

evars == <<epc, fetched, playlist, idx, g, file, writes>>
qvars == <<qpc, qg, args, out, executed, queries, status, snapshot, prev>>
dvars == <<dpc, duration_ms, duration_str, total_seconds>>
vars  == <<epc, fetched, playlist, idx, g, file, writes,
           qpc, qg, args, out, executed, queries, status, snapshot, prev,
           dpc, duration_ms, duration_str, total_seconds>>

-----------------------------------------------------------------------------
(* Bounds *)

MaxItems == 3
MaxSec == 725

-----------------------------------------------------------------------------
(* Strings *)

Colon == 58
Zero == 48

Min(a, b) == IF a < b THEN a ELSE b

\* Python's str < str, which is also how the query engine orders and compares
\* two plain literals: code point by code point, a proper prefix first.
StrLess(a, b) ==
    \E k \in 1..(Min(Len(a), Len(b)) + 1) :
        /\ \A i \in 1..(k - 1) : a[i] = b[i]
        /\ \/ k > Len(a) /\ k <= Len(b)
           \/ k <= Len(a) /\ k <= Len(b) /\ a[k] < b[k]

\* str(n) for n >= 0
RECURSIVE IntToStr(_)
IntToStr(n) ==
    IF n < 10 THEN <<Zero + n>>
    ELSE IntToStr(n \div 10) \o <<Zero + (n % 10)>>

\* f"{n:02d}"
Format02d(n) ==
    LET s == IntToStr(n)
    IN  IF Len(s) < 2 THEN <<Zero>> \o s ELSE s

\* s.split(sep)
RECURSIVE split(_, _)
split(s, sep) ==
    IF \A i \in 1..Len(s) : s[i] # sep THEN <<s>>
    ELSE LET k == CHOOSE i \in 1..Len(s) :
                     s[i] = sep /\ \A j \in 1..(i - 1) : s[j] # sep
         IN  <<SubSeq(s, 1, k - 1)>> \o split(SubSeq(s, k + 1, Len(s)), sep)

IsDigits(s) == Len(s) > 0 /\ \A i \in 1..Len(s) : s[i] \in Zero..(Zero + 9)

\* int(s) for a string of decimal digits
RECURSIVE int(_)
int(s) ==
    IF Len(s) = 0 THEN 0
    ELSE int(SubSeq(s, 1, Len(s) - 1)) * 10 + (s[Len(s)] - Zero)

-----------------------------------------------------------------------------
(* Duration formatting (Extractor) and parsing (Query Runner) *)

convert_duration_nomod(ms) ==
    LET minutes == ms \div 60000
        seconds == ms \div 1000
    IN  IntToStr(minutes) \o <<Colon>> \o Format02d(seconds)

convert_duration(ms) ==
    LET minutes == ms \div 60000
        seconds == (ms % 60000) \div 1000
    IN  IntToStr(minutes) \o <<Colon>> \o Format02d(seconds)

\* minutes, seconds = map(int, s.split(":")) is defined when the string has
\* exactly two fields of decimal digits
Parseable(s) ==
    LET p == split(s, Colon)
    IN  Len(p) = 2 /\ IsDigits(p[1]) /\ IsDigits(p[2])

\* minutes * 60 + seconds
parse_seconds(s) ==
    LET p == split(s, Colon)
    IN  int(p[1]) * 60 + int(p[2])

-----------------------------------------------------------------------------
(* The Graph: a set of triples, kept as one relation of (subject, object)  *)
(* pairs per predicate the Extractor emits                                 *)

MusicRecording == "schema:MusicRecording"

Graph == [type |-> {}, name |-> {}, duration |-> {}, byArtist |-> {}, inAlbum |-> {}]

\* g.add((s, p, o))
add(G, s, p, o) == [G EXCEPT ![p] = @ \cup {<<s, o>>}]

NoFile == [exists |-> FALSE, content |-> Graph]

\* g.serialize(destination=...): the file holds the triples of G
serialize(G) == [exists |-> TRUE, content |-> G]

-----------------------------------------------------------------------------
(* What the playlist API can return.  A track record is a dict: keys is    *)
(* the set of keys it has beside uri and name; reading a key it lacks      *)
(* raises.  The API is consistent: a URI always comes with the same data.  *)
(* A playlist item is held as its track record, track['track'].            *)

AllKeys == {"duration_ms", "artists", "album"}

Artist(n, nm) == [uri |-> n, name |-> nm]
Album(n, nm) == [uri |-> n, name |-> nm]

ArtistX  == Artist("spotify:artist:1", <<88>>)
ArtistY  == Artist("spotify:artist:2", <<89>>)
ArtistX2 == Artist("spotify:artist:3", <<88>>)
AlbumP   == Album("spotify:album:1", <<80>>)
AlbumQ   == Album("spotify:album:2", <<81>>)

Track(u, nm, ks, ms, ars, al) ==
    [uri |-> u, name |-> nm, keys |-> ks, duration_ms |-> ms,
     artists |-> ars, album |-> al]

WellFormed ==
    { Track("spotify:track:1", <<65>>, AllKeys, 210500, <<ArtistX>>, AlbumP),
      Track("spotify:track:2", <<66>>, AllKeys, 255000, <<ArtistX, ArtistY>>, AlbumP),
      Track("spotify:track:3", <<67>>, AllKeys, 605999, <<ArtistY>>, AlbumQ),
      Track("spotify:track:4", <<68>>, AllKeys, 210000, <<ArtistX2>>, AlbumQ) }

Malformed ==
    { Track("spotify:track:5", <<69>>, AllKeys \ {"duration_ms"}, 0, <<ArtistX>>, AlbumP),
      Track("spotify:track:6", <<70>>, AllKeys, 180000, <<>>, AlbumP),
      Track("spotify:track:7", <<71>>, AllKeys \ {"album"}, 180000, <<ArtistY>>, AlbumP) }

Catalog == WellFormed \cup Malformed

IsWellFormed(track_info) ==
    /\ AllKeys \subseteq track_info.keys
    /\ Len(track_info.artists) > 0

Playlists == UNION { [1..n -> Catalog] : n \in 0..MaxItems }

-----------------------------------------------------------------------------
(* Extractor *)

\* The body of the for loop for one item: the graph after the adds that
\* ran, and whether a lookup raised (KeyError, IndexError) on the way.
emit_track_all_artists(G, track_info) ==
    LET track_uri == track_info.uri
        g1 == add(add(G, track_uri, "type", MusicRecording),
                  track_uri, "name", track_info.name)
        g2 == add(g1, track_uri, "duration", convert_duration(track_info.duration_ms))
        g3 == [g2 EXCEPT
                 !.byArtist = @ \cup {<<track_uri, track_info.artists[i].uri>> :
                                          i \in 1..Len(track_info.artists)},
                 !.name = @ \cup {<<track_info.artists[i].uri, track_info.artists[i].name>> :
                                          i \in 1..Len(track_info.artists)}]
        g4 == add(add(g3, track_uri, "inAlbum", track_info.album.uri),
                  track_info.album.uri, "name", track_info.album.name)
    IN  IF "duration_ms" \notin track_info.keys THEN [graph |-> g1, raised |-> TRUE]
        ELSE IF "artists" \notin track_info.keys \/ Len(track_info.artists) = 0
             THEN [graph |-> g2, raised |-> TRUE]
        ELSE IF "album" \notin track_info.keys THEN [graph |-> g3, raised |-> TRUE]
        ELSE [graph |-> g4, raised |-> FALSE]

emit_track(G, track_info) ==
    LET track_uri == track_info.uri
        g1 == add(add(G, track_uri, "type", MusicRecording),
                  track_uri, "name", track_info.name)
        g2 == add(g1, track_uri, "duration", convert_duration(track_info.duration_ms))
        artist_uri == track_info.artists[1].uri
        g3 == add(add(g2, track_uri, "byArtist", artist_uri),
                  artist_uri, "name", track_info.artists[1].name)
        album_uri == track_info.album.uri
        g4 == add(add(g3, track_uri, "inAlbum", album_uri),
                  album_uri, "name", track_info.album.name)
    IN  IF "duration_ms" \notin track_info.keys THEN [graph |-> g1, raised |-> TRUE]
        ELSE IF "artists" \notin track_info.keys \/ Len(track_info.artists) = 0
             THEN [graph |-> g2, raised |-> TRUE]
        ELSE IF "album" \notin track_info.keys THEN [graph |-> g3, raised |-> TRUE]
        ELSE [graph |-> g4, raised |-> FALSE]

\* Imports, credentials, the API client and sp.playlist(...).  Any of them can
\* raise, which ends the run before the Graph is created.  (In rdf_schema.py
\* the names Namespace and auth_manager are misspelt, lines 5 and 15, so that
\* file as written can only take the failing outcome; playlist_data.py has
\* the same prelude spelt right.  Both outcomes are kept.)
Fetch ==
    /\ epc = "start"
    /\ \/ /\ epc' = "aborted"
          /\ UNCHANGED <<fetched, playlist, idx, g>>
       \/ \E items \in Playlists :
            /\ playlist' = items
            /\ fetched' = TRUE
            /\ g' = Graph
            /\ idx' = 1
            /\ epc' = "loop"
    /\ UNCHANGED <<file, writes>>
    /\ UNCHANGED qvars
    /\ UNCHANGED dvars

\* One iteration of the for loop.  An exception is not caught: it ends the
\* run, g.serialize is not reached.
ProcessTrack ==
    /\ epc = "loop"
    /\ idx <= Len(playlist)
    /\ LET r == emit_track(g, playlist[idx])
       IN  /\ g' = r.graph
           /\ IF r.raised
              THEN epc' = "aborted" /\ idx' = idx
              ELSE epc' = "loop" /\ idx' = idx + 1
    /\ UNCHANGED <<fetched, playlist, file, writes>>
    /\ UNCHANGED qvars
    /\ UNCHANGED dvars

SerializeEachTrack ==
    /\ epc = "loop"
    /\ idx > 1 \/ idx > Len(playlist)
    /\ file' = serialize(g)
    /\ writes' = writes + 1
    /\ epc' = IF idx > Len(playlist) THEN "done" ELSE "loop"
    /\ UNCHANGED <<fetched, playlist, idx, g>>
    /\ UNCHANGED qvars
    /\ UNCHANGED dvars

\* After the loop: g.serialize(destination="wedding_playlist.rdf")
Serialize ==
    /\ epc = "loop"
    /\ idx > Len(playlist)
    /\ file' = serialize(g)
    /\ writes' = writes + 1
    /\ epc' = "done"
    /\ UNCHANGED <<fetched, playlist, idx, g>>
    /\ UNCHANGED qvars
    /\ UNCHANGED dvars

-----------------------------------------------------------------------------
(* Query evaluation (sparql.py): each handler is the set of outputs its    *)
(* query and print loop can produce on graph G.  Where the query leaves    *)
(* the order of rows open (no ORDER BY, or equal sort keys) every order    *)
(* is a possible output.                                                   *)

Row(kind, c1, c2, n1, n2) == [kind |-> kind, c1 |-> c1, c2 |-> c2, n1 |-> n1, n2 |-> n2]

Perms(S) ==
    { f \in [1..Cardinality(S) -> S] :
        \A i, j \in 1..Cardinality(S) : i # j => f[i] # f[j] }

\* LIMIT 1
Limit1(f) == IF Len(f) = 0 THEN <<>> ELSE <<f[1]>>

\* the for loop of get_total_duration over the rows S
RECURSIVE SumSeconds(_)
SumSeconds(S) ==
    IF S = {} THEN 0
    ELSE LET row == CHOOSE y \in S : TRUE
         IN  parse_seconds(row.duration) + SumSeconds(S \ {row})

\* ?track a schema1:MusicRecording
Recordings(G) == { t[1] : t \in { x \in G.type : x[2] = MusicRecording } }

\* ?track a MusicRecording; name ?songTitle; duration ?duration.
SongSolutions(G) ==
    LET joined == { x \in Recordings(G) \X G.name \X G.duration :
                        x[2][1] = x[1] /\ x[3][1] = x[1] }
    IN  { [track |-> x[1], songTitle |-> x[2][2], duration |-> x[3][2]] : x \in joined }

\* ?track a MusicRecording; duration ?duration.
DurationSolutions(G) ==
    LET joined == { x \in Recordings(G) \X G.duration : x[2][1] = x[1] }
    IN  { [track |-> x[1], duration |-> x[2][2]] : x \in joined }

\* ?track a MusicRecording; byArtist ?artist. ?artist name ?artistName.
ArtistSolutions(G) ==
    LET joined == { x \in Recordings(G) \X G.byArtist \X G.name :
                        x[2][1] = x[1] /\ x[3][1] = x[2][2] }
    IN  { [track |-> x[1], artist |-> x[2][2], artistName |-> x[3][2]] : x \in joined }

\* ... name ?songTitle; byArtist ?artist. ?artist name ?artistName.
ArtistSongSolutions(G) ==
    LET joined == { x \in ArtistSolutions(G) \X G.name : x[2][1] = x[1].track }
    IN  { [track |-> x[1].track, artist |-> x[1].artist,
           artistName |-> x[1].artistName, songTitle |-> x[2][2]] : x \in joined }

\* ... name ?songTitle; inAlbum ?album. ?album name ?albumTitle.
AlbumSongSolutions(G) ==
    LET joined == { x \in Recordings(G) \X G.name \X G.inAlbum \X G.name :
                        x[2][1] = x[1] /\ x[3][1] = x[1] /\ x[4][1] = x[3][2] }
    IN  { [track |-> x[1], songTitle |-> x[2][2], album |-> x[3][2],
           albumTitle |-> x[4][2]] : x \in joined }

\* The ORDER BY clauses of the queries: whether solution x must come before
\* solution y.  ?duration and the names are plain string literals and are
\* ordered as strings; ?numSongs is a number.
Before(order, x, y) ==
    CASE order = "DESC(?duration)" -> StrLess(y.duration, x.duration)
      [] order = "ASC(?duration)" -> StrLess(x.duration, y.duration)
      [] order = "?albumTitle" -> StrLess(x.albumTitle, y.albumTitle)
      [] order = "?artistName" -> StrLess(x.artistName, y.artistName)
      [] order = "DESC(?numSongs)" -> y.numSongs < x.numSongs
      [] OTHER -> FALSE

\* ORDER BY: the orders of the solutions S in which no solution stands
\* behind one it must precede ("" for a query without ORDER BY)
OrderBy(S, order) ==
    { f \in Perms(S) :
        \A i, j \in 1..Cardinality(S) : i < j => ~Before(order, f[j], f[i]) }

SongRows(kind, f) ==
    [i \in 1..Len(f) |-> Row(kind, f[i].songTitle, f[i].duration, 0, 0)]

\* SELECT DISTINCT ?artistName ... ORDER BY ASC(?artistName)
get_all_artists(G) ==
    LET distinct == { [artistName |-> s.artistName] : s \in ArtistSolutions(G) }
        f == CHOOSE o \in OrderBy(distinct, "?artistName") : TRUE
    IN  [i \in 1..Len(f) |-> f[i].artistName]

get_total_duration(G) ==
    LET total_duration_seconds == SumSeconds(DurationSolutions(G))
    IN  { <<Row("total_duration", <<>>, <<>>,
                total_duration_seconds \div 60, total_duration_seconds % 60)>> }

get_total_songs(G) ==
    { <<Row("total_songs", <<>>, <<>>, Cardinality(Recordings(G)), 0)>> }

get_songs_sorted_by_length(G) ==
    { SongRows("song", f) : f \in OrderBy(SongSolutions(G), "DESC(?duration)") }

get_longest_song(G) ==
    { SongRows("longest", Limit1(f)) : f \in OrderBy(SongSolutions(G), "DESC(?duration)") }

get_shortest_song(G) ==
    { SongRows("shortest", Limit1(f)) : f \in OrderBy(SongSolutions(G), "ASC(?duration)") }

\* FILTER (?duration > "{duration}")
get_songs_longer_than(G, duration) ==
    LET kept == { s \in SongSolutions(G) : StrLess(duration, s.duration) }
    IN  { SongRows("song", f) : f \in OrderBy(kept, "") }

get_songs_grouped_by_album(G) ==
    { [i \in 1..Len(f) |-> Row("album", f[i].albumTitle, f[i].songTitle, 0, 0)] :
        f \in OrderBy(AlbumSongSolutions(G), "?albumTitle") }

get_songs_grouped_by_artist(G) ==
    { [i \in 1..Len(f) |-> Row("artist", f[i].artistName, f[i].songTitle, 0, 0)] :
        f \in OrderBy(ArtistSongSolutions(G), "?artistName") }

\* GROUP BY ?artistName, COUNT(?track)
AppearanceGroups(G) ==
    LET S == ArtistSolutions(G)
    IN  { [artistName |-> n,
           numSongs |-> Cardinality({ s \in S : s.artistName = n })] :
            n \in { s.artistName : s \in S } }

get_artists_by_appearance(G) ==
    { [i \in 1..Len(f) |-> Row("appearance", f[i].artistName, <<>>, f[i].numSongs, 0)] :
        f \in OrderBy(AppearanceGroups(G), "DESC(?numSongs)") }

\* selected_artist is what input() returned
get_songs_by_artist(G, selected_artist) ==
    LET artists == get_all_artists(G)
        listing == [i \in 1..Len(artists) |-> Row("listing", artists[i], <<>>, i, 0)]
        songs == { s \in ArtistSongSolutions(G) : s.artistName = selected_artist }
    IN  { <<Row("Artists:", <<>>, <<>>, 0, 0)>> \o listing
            \o <<Row("Songs by", selected_artist, <<>>, 0, 0)>>
            \o [i \in 1..Len(f) |-> Row("songTitle", f[i].songTitle, <<>>, 0, 0)] :
          f \in OrderBy(songs, "") }

-----------------------------------------------------------------------------
(* Command line *)

Choices == {"duration", "total_songs", "length", "longest", "shortest",
            "longer_than", "album", "artist", "by_appearance", "by_artist"}

HandlerOf(query) ==
    CASE query = "duration" -> "get_total_duration"
      [] query = "total_songs" -> "get_total_songs"
      [] query = "length" -> "get_songs_sorted_by_length"
      [] query = "longest" -> "get_longest_song"
      [] query = "shortest" -> "get_shortest_song"
      [] query = "longer_than" -> "get_songs_longer_than"
      [] query = "album" -> "get_songs_grouped_by_album"
      [] query = "artist" -> "get_songs_grouped_by_artist"
      [] query = "by_appearance" -> "get_artists_by_appearance"
      [] query = "by_artist" -> "get_songs_by_artist"
      [] OTHER -> "none"

NotGiven == [given |-> FALSE, value |-> <<>>]
Given(s) == [given |-> TRUE, value |-> s]

\* "4:00", "3:00", "10:00" and the empty string
MinDurations == { <<52, 58, 48, 48>>, <<51, 58, 48, 48>>, <<49, 48, 58, 48, 48>>, <<>> }

\* what the user can type at the prompt of by_artist: X, Y, or a name not listed
TypedNames == { <<88>>, <<89>>, <<90>> }

\* --min_duration is read by the longer_than branch only; it is varied there
Argvs ==
    { [query |-> q, min_duration |-> NotGiven] : q \in Choices \cup {"bogus"} }
    \cup { [query |-> "longer_than", min_duration |-> Given(d)] : d \in MinDurations }

NoArgs == [query |-> "", min_duration |-> NotGiven]

\* if args.min_duration:
Truthy(min_duration) == min_duration.given /\ min_duration.value # <<>>

Ran(handler, outs, nq) ==
    { [executed |-> <<handler>>, out |-> o, queries |-> nq, status |-> 0] : o \in outs }

\* parse_args and the if / elif chain, to the end of the process
main_unguarded(a, G, typed) ==
    IF a.query \notin Choices
    THEN { [executed |-> <<>>, out |-> <<Row("usage", <<>>, <<>>, 0, 0)>>,
            queries |-> 0, status |-> 2] }
    ELSE IF a.query = "longer_than"
    THEN Ran("get_songs_longer_than", get_songs_longer_than(G, a.min_duration.value), 1)
    ELSE IF a.query = "by_artist"
    THEN Ran("get_songs_by_artist", get_songs_by_artist(G, typed), 2)
    ELSE IF a.query = "longest"
    THEN { [executed |-> <<"get_songs_sorted_by_length", "get_longest_song">>,
            out |-> o1 \o o2, queries |-> 2, status |-> 0] :
             o1 \in get_songs_sorted_by_length(G), o2 \in get_longest_song(G) }
    ELSE Ran(HandlerOf(a.query),
             CASE a.query = "duration" -> get_total_duration(G)
               [] a.query = "total_songs" -> get_total_songs(G)
               [] a.query = "length" -> get_songs_sorted_by_length(G)
               [] a.query = "shortest" -> get_shortest_song(G)
               [] a.query = "album" -> get_songs_grouped_by_album(G)
               [] a.query = "artist" -> get_songs_grouped_by_artist(G)
               [] a.query = "by_appearance" -> get_artists_by_appearance(G), 1)

main(a, G, typed) ==
    IF a.query \notin Choices
    THEN \* argparse rejects the choice: usage on stderr, exit status 2
         { [executed |-> <<>>, out |-> <<Row("usage", <<>>, <<>>, 0, 0)>>,
            queries |-> 0, status |-> 2] }
    ELSE IF a.query = "longer_than"
    THEN IF Truthy(a.min_duration)
         THEN Ran("get_songs_longer_than",
                  get_songs_longer_than(G, a.min_duration.value), 1)
         ELSE \* print("Error: --min_duration is required ..."), then the
              \* script ends normally
              { [executed |-> <<>>, out |-> <<Row("Error", <<>>, <<>>, 0, 0)>>,
                 queries |-> 0, status |-> 0] }
    ELSE IF a.query = "by_artist"
    THEN Ran("get_songs_by_artist", get_songs_by_artist(G, typed), 2)
    ELSE Ran(HandlerOf(a.query),
             CASE a.query = "duration" -> get_total_duration(G)
               [] a.query = "total_songs" -> get_total_songs(G)
               [] a.query = "length" -> get_songs_sorted_by_length(G)
               [] a.query = "longest" -> get_longest_song(G)
               [] a.query = "shortest" -> get_shortest_song(G)
               [] a.query = "album" -> get_songs_grouped_by_album(G)
               [] a.query = "artist" -> get_songs_grouped_by_artist(G)
               [] a.query = "by_appearance" -> get_artists_by_appearance(G), 1)

-----------------------------------------------------------------------------
(* Query Runner process *)

\* g.parse("wedding_playlist.rdf", format="turtle")
parse(f) == f.content

NoRun == [args |-> NoArgs, out |-> <<>>, executed |-> <<>>, queries |-> 0,
          status |-> 0, ended |-> "never"]

ThisRun == [args |-> args, out |-> out, executed |-> executed, queries |-> queries,
            status |-> status, ended |-> qpc]

\* A new invocation, after the Extractor has ended (the two never run at the
\* same time): module lines 4-5 create the Graph and parse the file; a
\* missing file raises and ends the process.
Launch ==
    /\ qpc \in {"idle", "exited", "crashed"}
    /\ epc \in {"done", "aborted"}
    /\ prev' = IF qpc = "idle" THEN prev ELSE ThisRun
    /\ args' = NoArgs
    /\ out' = <<>>
    /\ executed' = <<>>
    /\ queries' = 0
    /\ snapshot' = file
    /\ IF file.exists
       THEN qg' = parse(file) /\ qpc' = "loaded" /\ status' = 0
       ELSE qg' = Graph /\ qpc' = "crashed" /\ status' = 1
    /\ UNCHANGED evars
    /\ UNCHANGED dvars

\* The __main__ block: parse the command line, run the branch it selects,
\* print, exit.
Main ==
    /\ qpc = "loaded"
    /\ \E a \in Argvs, typed \in TypedNames :
         /\ a.query # "by_artist" => typed = <<88>>
         /\ \E r \in main(a, qg, typed) :
              /\ args' = a
              /\ out' = r.out
              /\ executed' = r.executed
              /\ queries' = r.queries
              /\ status' = r.status
    /\ qpc' = "exited"
    /\ UNCHANGED <<qg, snapshot, prev>>
    /\ UNCHANGED evars
    /\ UNCHANGED dvars

-----------------------------------------------------------------------------
(* One duration through convert_duration and back *)

DurationInputs == { s * 1000 + r : s \in 0..MaxSec, r \in {0, 1, 999} }

Format ==
    /\ dpc = "input"
    /\ duration_str' = convert_duration(duration_ms)
    /\ dpc' = "formatted"
    /\ UNCHANGED <<duration_ms, total_seconds>>
    /\ UNCHANGED evars
    /\ UNCHANGED qvars

Parse ==
    /\ dpc = "formatted"
    /\ total_seconds' = parse_seconds(duration_str)
    /\ dpc' = "parsed"
    /\ UNCHANGED <<duration_ms, duration_str>>
    /\ UNCHANGED evars
    /\ UNCHANGED qvars

-----------------------------------------------------------------------------
(* Specifications *)

EInit ==
    /\ epc = "start"
    /\ fetched = FALSE
    /\ playlist = <<>>
    /\ idx = 1
    /\ g = Graph
    /\ file = NoFile
    /\ writes = 0

QInit ==
    /\ qpc = "idle"
    /\ qg = Graph
    /\ args = NoArgs
    /\ out = <<>>
    /\ executed = <<>>
    /\ queries = 0
    /\ status = 0
    /\ snapshot = NoFile
    /\ prev = NoRun

Init ==
    /\ EInit
    /\ QInit
    /\ dpc = "off"
    /\ duration_ms = 0
    /\ duration_str = <<>>
    /\ total_seconds = 0

Next == Fetch \/ ProcessTrack \/ Serialize \/ Launch \/ Main

Spec == Init /\ [][Next]_vars

DInit ==
    /\ EInit
    /\ QInit
    /\ dpc = "input"
    /\ duration_ms \in DurationInputs
    /\ duration_str = <<>>
    /\ total_seconds = 0

DNext == Format \/ Parse

SpecDuration == DInit /\ [][DNext]_vars

-----------------------------------------------------------------------------
(* Properties *)

Rows(o) == { o[i] : i \in 1..Len(o) }

\* the graph holding exactly the complete clusters of the well-formed items
RECURSIVE ClustersOf(_, _)
ClustersOf(items, n) ==
    IF n = 0 THEN Graph
    ELSE IF IsWellFormed(items[n])
         THEN emit_track(ClustersOf(items, n - 1), items[n]).graph
         ELSE ClustersOf(items, n - 1)

\* C1: for every duration ms >= 0 the string convert_duration(ms) gives, split
\* on ':' and read back as minutes * 60 + seconds, is ms // 1000, and its
\* seconds field is two digits in 00..59.
C1_DurationRoundTrip ==
    /\ dpc \in {"formatted", "parsed"} =>
          LET p == split(duration_str, Colon)
          IN  /\ Len(p) = 2
              /\ IsDigits(p[1])
              /\ Len(p[2]) = 2
              /\ IsDigits(p[2])
              /\ int(p[2]) \in 0..59
    /\ dpc = "parsed" => total_seconds = duration_ms \div 1000

C1_Witness ==
    /\ dpc = "parsed"
    /\ duration_ms >= 600000
    /\ duration_ms % 1000 # 0
    /\ (duration_ms % 60000) \div 1000 < 10
    /\ total_seconds = duration_ms \div 1000

\* C2: longer_than with a "minutes:seconds" threshold prints exactly the
\* tracks whose duration in seconds is greater than the threshold in seconds,
\* and only rows the length query prints.
C2_LongerThanNumeric ==
    (/\ qpc = "exited"
     /\ args.query = "longer_than"
     /\ Truthy(args.min_duration)
     /\ Parseable(args.min_duration.value))
    => LET longer == { s \in SongSolutions(qg) :
                         parse_seconds(s.duration) > parse_seconds(args.min_duration.value) }
       IN  /\ Rows(out) = { Row("song", s.songTitle, s.duration, 0, 0) : s \in longer }
           /\ Len(out) = Cardinality(longer)
           /\ \A o \in get_songs_sorted_by_length(qg) : Rows(out) \subseteq Rows(o)

\* C3: length prints every track once, and no printed track is shorter, in
\* seconds, than a track printed after it.
C3_LengthDescending ==
    (qpc = "exited" /\ args.query = "length")
    => /\ Len(out) = Cardinality(Recordings(qg))
       /\ Rows(out) = { Row("song", s.songTitle, s.duration, 0, 0) : s \in SongSolutions(qg) }
       /\ \A i, j \in 1..Len(out) :
             i < j => parse_seconds(out[i].c2) >= parse_seconds(out[j].c2)

SameDuration(r1, r2) == r1.c2 = r2.c2

\* C4: on a non-empty graph, longest prints the first row of what length
\* printed and shortest its last row, so longest is a track of maximum
\* duration and shortest one of minimum duration.  (Rows are compared by
\* their duration: which of several tracks of one duration comes first is
\* left open by the queries.)
C4_LongestShortest ==
    (/\ qpc = "exited"
     /\ prev.ended = "exited"
     /\ prev.args.query = "length"
     /\ Len(prev.out) > 0)
    => /\ args.query = "longest" =>
             /\ Len(out) = 1
             /\ SameDuration(out[1], prev.out[1])
             /\ \A s \in SongSolutions(qg) :
                   parse_seconds(out[1].c2) >= parse_seconds(s.duration)
       /\ args.query = "shortest" =>
             /\ Len(out) = 1
             /\ SameDuration(out[1], prev.out[Len(prev.out)])
             /\ \A s \in SongSolutions(qg) :
                   parse_seconds(out[1].c2) =< parse_seconds(s.duration)

\* What does hold between the three queries: the rows agree, with longest
\* the greatest and shortest the least duration as strings.
C4_LongestShortestAsStrings ==
    (/\ qpc = "exited"
     /\ prev.ended = "exited"
     /\ prev.args.query = "length"
     /\ Len(prev.out) > 0)
    => /\ args.query = "longest" =>
             /\ Len(out) = 1
             /\ SameDuration(out[1], prev.out[1])
             /\ \A s \in SongSolutions(qg) : ~StrLess(out[1].c2, s.duration)
       /\ args.query = "shortest" =>
             /\ Len(out) = 1
             /\ SameDuration(out[1], prev.out[Len(prev.out)])
             /\ \A s \in SongSolutions(qg) : ~StrLess(s.duration, out[1].c2)

RECURSIVE SumNumSongs(_, _)
SumNumSongs(o, n) == IF n = 0 THEN 0 ELSE o[n].n1 + SumNumSongs(o, n - 1)

\* C5: on a graph the Extractor wrote, the counts by_appearance prints add up
\* to the count total_songs prints, and its rows are in non-increasing order
\* of count.
C5_AppearanceSum ==
    (qpc = "exited" /\ args.query = "by_appearance")
    => /\ \A i, j \in 1..Len(out) : i < j => out[i].n1 >= out[j].n1
       /\ \A o \in get_total_songs(qg) : SumNumSongs(out, Len(out)) = o[1].n1
       /\ (prev.ended = "exited" /\ prev.args.query = "total_songs")
             => SumNumSongs(out, Len(out)) = prev.out[1].n1

C5_Witness ==
    /\ qpc = "exited"
    /\ args.query = "by_appearance"
    /\ prev.ended = "exited"
    /\ prev.args.query = "total_songs"
    /\ prev.out[1].n1 = 3
    /\ Len(out) = 2
    /\ out[1].n1 = 2
    /\ out[2].n1 = 1

\* C6: for a playlist of N items, the graph is written, can be reloaded, and
\* total_songs on it prints N.
C6_RoundTripCount ==
    (fetched /\ qpc \in {"exited", "crashed"})
    => /\ qpc = "exited"
       /\ args.query = "total_songs" => out[1].n1 = Len(playlist)

\* C6 on well-formed items alone: the same track listed twice
C6_CountOfWellFormed ==
    (/\ qpc = "exited"
     /\ args.query = "total_songs"
     /\ \A i \in 1..Len(playlist) : IsWellFormed(playlist[i]))
    => out[1].n1 = Len(playlist)

\* C7: longer_than without a threshold prints an error message, runs no
\* query, prints no query output and exits with a non-zero status.
C7_MissingThreshold ==
    (qpc = "exited" /\ args.query = "longer_than" /\ ~Truthy(args.min_duration))
    => /\ \E i \in 1..Len(out) : out[i].kind = "Error"
       /\ \A i \in 1..Len(out) : out[i].kind = "Error"
       /\ queries = 0
       /\ executed = <<>>
       /\ status # 0

\* C8: a malformed item is skipped: the run goes on to the end, the graph
\* holds no triple of the malformed item, and the file is written with the
\* complete clusters of the well-formed items.
C8_SkipMalformed ==
    (fetched /\ epc \in {"done", "aborted"})
    => /\ epc = "done"
       /\ g = ClustersOf(playlist, Len(playlist))
       /\ file = serialize(ClustersOf(playlist, Len(playlist)))

\* C9: the file is written at most once, and only after the fetch succeeded
\* and every item was processed; a run whose fetch fails ends with no triple
\* emitted and no file.
C9_WriteOnceAtEnd ==
    /\ writes <= 1
    /\ file.exists <=> writes = 1
    /\ file.exists =>
          /\ fetched
          /\ epc = "done"
          /\ idx = Len(playlist) + 1
          /\ file.content = g
          /\ \A i \in 1..Len(playlist) : playlist[i].uri \in Recordings(file.content)
    /\ ~fetched =>
          /\ epc \in {"start", "aborted"}
          /\ g = Graph
          /\ ~file.exists

C9_Witness ==
    /\ epc = "done"
    /\ writes = 1
    /\ file.exists
    /\ Len(playlist) >= 2
    /\ Cardinality(Recordings(file.content)) >= 2

\* C10 as stated: with a valid selector exactly the handler the selector
\* names runs, and the loaded graph and the file are as they were.
C10_ExactlyOneHandler ==
    (qpc = "exited" /\ args.query \in Choices)
    => /\ executed = <<HandlerOf(args.query)>>
       /\ qg = snapshot.content
       /\ file = snapshot

\* C10, amended: with a valid selector exactly the handler the selector names
\* runs, except that longer_than without a (non-empty) threshold runs no
\* handler; no invocation runs two; the loaded graph and the file are as they
\* were.
C10_AtMostOneHandler ==
    (qpc = "exited" /\ args.query \in Choices)
    => /\ IF args.query = "longer_than" /\ ~Truthy(args.min_duration)
          THEN executed = <<>>
          ELSE executed = <<HandlerOf(args.query)>>
       /\ qg = snapshot.content
       /\ file = snapshot

C10_Witness ==
    /\ qpc = "exited"
    /\ args.query = "by_artist"
    /\ executed = <<"get_songs_by_artist">>
    /\ queries = 2
    /\ \E i \in 1..Len(out) : out[i].kind = "songTitle"
    /\ qg = snapshot.content
    /\ file = snapshot

====
